---------------------------- MODULE Spec2Model ----------------------------
(***************************************************************************)
(* Model of the authentication and event-listing subsystem of the          *)
(* culturalite backend:                                                    *)
(*   culturalite-backend/apps/users/views.py      (register, login,        *)
(*                                                 refresh, logout)        *)
(*   apps/backend/apps/users/serializers.py       (registration, login)    *)
(*   culturalite-backend/apps/users/validators.py (password validators)    *)
(*   apps/backend/apps/events/views.py            (cached event list)      *)
(*                                                                         *)
(* Text values the code inspects character by character (passwords, e-mail *)
(* domains, city and category names) are sequences of one-character        *)
(* strings.  The handlers are modelled for requests the rate limiter       *)
(* admits; the `ratelimit` decorators wrap the handlers from outside and   *)
(* are modelled by the action `ratelimit` (SpecLimit).                     *)
(***************************************************************************)
EXTENDS Integers, Sequences, FiniteSets, TLC

VARIABLES
    users,        \* rows of auth_user, in insertion order
    profiles,     \* rows of UserProfile, in insertion order
    outstanding,  \* refresh tokens issued so far (their jti)
    blacklist,    \* token_blacklist: revoked refresh tokens
    expired,      \* refresh tokens whose lifetime has elapsed
    hasRotate,    \* whether the RefreshToken object exposes a `rotate` attribute
    pc,           \* per request slot: the handler step it is at
    req,          \* per request slot: the request being processed
    resp,         \* per request slot: the last response sent
    conc,         \* per request slot: slots whose request overlapped this one
    loggedOut,    \* history: tokens for which a logout returned 200
    refreshed,    \* history: tokens for which a refresh returned 200
    events,       \* rows of Event, in insertion order
    cache,        \* the key-value cache of list responses
    listResp,     \* the last response of the event list endpoint
    hits,         \* rate limiter: requests counted per (group, ip) in the window
    gate          \* per request slot: the rate limiter's last decision

vars == <<users, profiles, outstanding, blacklist, expired, hasRotate,
          pc, req, resp, conc, loggedOut, refreshed, events, cache, listResp,
          hits, gate>>

authVars  == <<outstanding, blacklist, expired, hasRotate, loggedOut>>
storeVars == <<users, profiles>>
slotVars  == <<pc, req, resp, conc>>
eventVars == <<events, cache, listResp>>
limitVars == <<hits, gate>>

---------------------------------------------------------------------------
(* Bounds *)

\* refresh tokens that can be issued in one run
MaxTokens == 2
\* longest tail appended to a password stem
MaxTail == 1
\* rows of auth_user a run may create
MaxUsers == 2

Workers == {"w1", "w2"}

---------------------------------------------------------------------------
(* Characters and strings *)

UpperSeq == <<"A","B","C","D","E","F","G","H","I","J","K","L","M",
              "N","O","P","Q","R","S","T","U","V","W","X","Y","Z">>
LowerSeq == <<"a","b","c","d","e","f","g","h","i","j","k","l","m",
              "n","o","p","q","r","s","t","u","v","w","x","y","z">>
DigitSeq == <<"0","1","2","3","4","5","6","7","8","9">>

Range(s) == {s[i] : i \in DOMAIN s}

UpperChars == Range(UpperSeq)
LowerChars == Range(LowerSeq)
DigitChars == Range(DigitSeq)

IsUpper(c) == c \in UpperChars
IsLower(c) == c \in LowerChars
IsDigit(c) == c \in DigitChars

\* the lower-case letter of each upper-case letter
LowerOf == [c \in UpperChars |->
              LowerSeq[CHOOSE i \in DOMAIN UpperSeq : UpperSeq[i] = c]]

\* str.lower() on one character
LowerChar(c) == IF IsUpper(c) THEN LowerOf[c] ELSE c

\* str.lower()
lower(s) == [i \in DOMAIN s |-> LowerChar(s[i])]

\* re.search(r'[A-Z]', s), re.search(r'[a-z]', s), re.search(r'\d', s)
HasUpper(s) == \E i \in DOMAIN s : IsUpper(s[i])
HasLower(s) == \E i \in DOMAIN s : IsLower(s[i])
HasDigit(s) == \E i \in DOMAIN s : IsDigit(s[i])

\* `sub in s` on strings
Contains(s, sub) ==
    \E k \in 0..(Len(s) - Len(sub)) :
        \A i \in 1..Len(sub) : s[k + i] = sub[i]

\* all sequences over alphabet A of length at most n
RECURSIVE SeqsUpTo(_, _)
SeqsUpTo(A, n) ==
    IF n = 0 THEN {<<>>}
    ELSE LET shorter == SeqsUpTo(A, n - 1)
         IN  shorter \cup {Append(s, c) : s \in shorter, c \in A}


---------------------------------------------------------------------------
(* Values shared by the handlers *)

\* request.COOKIES.get('refresh_token') / request.data.get('refresh') when absent
NoToken == 0

\* a string that is no token of this service ('invalid_token')
Garbage == MaxTokens + 1

\* what a client can put in the cookie or in the body
TokenInputs == 0..(MaxTokens + 1)

\* an e-mail address: local part and domain (a character sequence)
Email(local, domain) == [local |-> local, domain |-> domain]
NoEmail == Email("", <<>>)

\* BaseUserManager.normalize_email, applied by create_user: the domain part
\* is lower-cased, the local part is kept
normalize_email(e) == [e EXCEPT !.domain = lower(e.domain)]

\* the registration payload when no request is attached to a response
NoData == [email |-> NoEmail, password |-> <<>>, password_confirm |-> <<>>,
           role |-> "", is_verified |-> FALSE,
           first_name |-> <<>>, last_name |-> <<>>, organization_name |-> <<>>]

NoReq == [op |-> "none", cookie |-> NoToken, body |-> NoToken,
          token |-> NoToken, later |-> FALSE, reused |-> FALSE,
          data |-> NoData, user |-> 0, taken |-> FALSE]

NoResp == [op |-> "none", status |-> 0, cookie |-> NoToken, body |-> NoToken,
           token |-> NoToken, fields |-> {},
           access |-> NoToken, set_cookie |-> NoToken, httponly |-> FALSE,
           delete_cookie |-> FALSE, later |-> FALSE, reused |-> FALSE,
           data |-> NoData, errors |-> {}, taken |-> FALSE, created |-> FALSE,
           user |-> 0, name_claim |-> <<>>, user_name |-> <<>>]

\* rest_framework Response(data, status): body field names and status
Response(op, status, fields) ==
    [NoResp EXCEPT !.op = op, !.status = status, !.fields = fields]

\* a request slot takes a request: the slots in flight overlap with it
Overlap(w) ==
    [u \in Workers |->
        IF u = w THEN {v \in Workers \ {w} : pc[v] # "idle"}
        ELSE IF pc[u] # "idle" THEN conc[u] \cup {w}
        ELSE conc[u] \ {w}]

---------------------------------------------------------------------------
(* Token service (rest_framework_simplejwt, as the views call it) *)

\* settings.INSTALLED_APPS holds rest_framework_simplejwt.token_blacklist:
\* logout's token.blacklist() exists and RefreshToken(...) checks the blacklist
BLACKLIST_APP_INSTALLED == TRUE

\* settings.SIMPLE_JWT: ROTATE_REFRESH_TOKENS / BLACKLIST_AFTER_ROTATION
ROTATE_REFRESH_TOKENS == TRUE

\* a token check that does not look at the lifetime
TokenError_NoExpiryCheck(t) ==
    \/ t \notin outstanding
    \/ (BLACKLIST_APP_INSTALLED /\ t \in blacklist)

\* a token check that does not consult the blacklist
TokenError_NoBlacklistCheck(t) ==
    \/ t \notin outstanding
    \/ t \in expired

\* a token check that accepts any string as a token
TokenError_NoDecodeCheck(t) ==
    \/ t \in expired
    \/ (BLACKLIST_APP_INSTALLED /\ t \in blacklist)

\* RefreshToken(refresh_token) raises TokenError: the string does not decode
\* to a token this service signed, the token is past its lifetime, or it is
\* on the blacklist
TokenError(t) ==
    \/ t \notin outstanding
    \/ t \in expired
    \/ (BLACKLIST_APP_INSTALLED /\ t \in blacklist)

\* a revocation that takes every issued token along
Blacklist_EveryToken(bl, t) == bl \cup outstanding

\* token.blacklist(): the blacklist after revoking t
Blacklist(bl, t) == bl \cup {t}

\* a reading of the token that prefers the body
TokenOf_BodyFirst(cookie, body) == IF body # NoToken THEN body ELSE cookie

\* the refresh token a request carries: cookie first, then body
TokenOf(cookie, body) == IF cookie # NoToken THEN cookie ELSE body

---------------------------------------------------------------------------
(* Login: CustomTokenObtainPairView.post *)

\* authenticate(): the row whose username and password match, 0 when none
Authenticate(username, password) ==
    IF \E i \in DOMAIN users :
          users[i].username = username /\ users[i].password = password
    THEN CHOOSE i \in DOMAIN users :
          users[i].username = username /\ users[i].password = password
    ELSE 0

\* str.strip(): leading and trailing blanks removed
RECURSIVE strip(_)
strip(s) ==
    IF s = <<>> THEN s
    ELSE IF s[1] = " " THEN strip(Tail(s))
    ELSE IF s[Len(s)] = " " THEN strip(SubSeq(s, 1, Len(s) - 1))
    ELSE s

\* the username as text
UsernameText(user) == <<user.username.local, "@">> \o user.username.domain

\* AbstractUser.get_full_name: first and last name with a blank between,
\* stripped
get_full_name(user) == strip(user.first_name \o <<" ">> \o user.last_name)

\* the profile of a user: the set holds it, or is empty (hasattr(obj, 'profile'))
ProfileOfUser(i) == {profiles[j] : j \in {k \in DOMAIN profiles : profiles[k].user = i}}

\* CustomTokenObtainPairSerializer.get_token:
\* token['name'] = user.get_full_name() or user.username
get_token_name(user) ==
    IF get_full_name(user) # <<>> THEN get_full_name(user)
    ELSE UsernameText(user)

\* UserSerializer.get_name
get_name(i) ==
    IF users[i].first_name # <<>> /\ users[i].last_name # <<>>
    THEN users[i].first_name \o <<" ">> \o users[i].last_name
    ELSE IF \E pr \in ProfileOfUser(i) : pr.organization_name # <<>>
    THEN (CHOOSE pr \in ProfileOfUser(i) : TRUE).organization_name
    ELSE UsernameText(users[i])

\* TokenObtainPairView.post with CustomTokenObtainPairSerializer.validate:
\* the fields of response.data on success
ObtainPairData == {"refresh", "access", "user"}

\* a login body that keeps the serializer's data as it is
LoginBody_RefreshKept(data) == data

\* post(): the refresh token leaves the body (response.data.pop('refresh'))
LoginBody(data) == data \ {"refresh"}

CustomTokenObtainPairView_post(w, username, password) ==
    /\ pc[w] = "idle"
    /\ LET uid == Authenticate(username, password)
           jti == Cardinality(outstanding) + 1
       IN  IF username = NoEmail \/ password = <<>>
           THEN \* serializer.is_valid(raise_exception=True): required field
                /\ resp' = [resp EXCEPT ![w] = Response("login", 400, {"username_or_password"})]
                /\ UNCHANGED outstanding
           ELSE IF uid = 0
           THEN \* AuthenticationFailed
                /\ resp' = [resp EXCEPT ![w] = Response("login", 401, {"detail"})]
                /\ UNCHANGED outstanding
           ELSE /\ jti <= MaxTokens
                /\ outstanding' = outstanding \cup {jti}
                /\ resp' = [resp EXCEPT ![w] =
                       [Response("login", 200, LoginBody(ObtainPairData))
                           EXCEPT !.token = jti, !.access = jti,
                                  !.set_cookie = jti, !.httponly = TRUE,
                                  !.user = uid,
                                  !.name_claim = get_token_name(users[uid]),
                                  !.user_name = get_name(uid)]]
    /\ UNCHANGED <<blacklist, expired, hasRotate, loggedOut, refreshed>>
    /\ UNCHANGED <<pc, req, conc>>
    /\ UNCHANGED <<storeVars, eventVars>>
    /\ UNCHANGED limitVars

---------------------------------------------------------------------------
(* Refresh: refresh_token_view *)

\* the request arrives and the token is read from the cookie or the body
refresh_token_view_begin(w, cookie, body) ==
    /\ pc[w] = "idle"
    /\ LET t == TokenOf(cookie, body)
       IN  req' = [req EXCEPT ![w] =
                     [NoReq EXCEPT !.op = "refresh", !.token = t,
                                   !.cookie = cookie, !.body = body,
                                   !.later = (t \in loggedOut),
                                   !.reused = (t \in refreshed)]]
    /\ pc' = [pc EXCEPT ![w] = "refresh"]
    /\ conc' = Overlap(w)
    /\ UNCHANGED <<resp, authVars, refreshed, storeVars, eventVars>>
    /\ UNCHANGED limitVars

\* str(refresh) if hasattr(refresh, 'rotate') else None
NewRefreshToken(t) == IF hasRotate THEN t ELSE NoToken

\* the token is validated and the response is built
refresh_token_view(w) ==
    /\ pc[w] = "refresh"
    /\ LET t == req[w].token
           base(status, fields) ==
               [Response("refresh", status, fields)
                   EXCEPT !.token = t, !.later = req[w].later,
                          !.reused = req[w].reused,
                          !.cookie = req[w].cookie, !.body = req[w].body]
       IN  IF t = NoToken
           THEN /\ resp' = [resp EXCEPT ![w] = base(400, {"error", "details"})]
                /\ UNCHANGED refreshed
           ELSE IF TokenError(t)
           THEN /\ resp' = [resp EXCEPT ![w] = base(401, {"error", "details"})]
                /\ UNCHANGED refreshed
           ELSE /\ resp' = [resp EXCEPT ![w] =
                       [base(200, {"access", "message"})
                           EXCEPT !.access = t,
                                  !.set_cookie = NewRefreshToken(t),
                                  !.httponly = (NewRefreshToken(t) # NoToken)]]
                /\ refreshed' = refreshed \cup {t}
    /\ pc' = [pc EXCEPT ![w] = "idle"]
    /\ req' = [req EXCEPT ![w] = NoReq]
    /\ UNCHANGED <<conc, authVars, storeVars, eventVars>>
    /\ UNCHANGED limitVars

---------------------------------------------------------------------------
(* Logout: logout_view *)

logout_view_begin(w, cookie, body) ==
    /\ pc[w] = "idle"
    /\ req' = [req EXCEPT ![w] =
                 [NoReq EXCEPT !.op = "logout", !.token = TokenOf(cookie, body),
                               !.cookie = cookie, !.body = body]]
    /\ pc' = [pc EXCEPT ![w] = "logout"]
    /\ conc' = Overlap(w)
    /\ UNCHANGED <<resp, authVars, refreshed, storeVars, eventVars>>
    /\ UNCHANGED limitVars

\* token = RefreshToken(refresh_token)
logout_view_verify(w) ==
    /\ pc[w] = "logout"
    /\ LET t == req[w].token
           base(status, fields) ==
               [Response("logout", status, fields)
                   EXCEPT !.token = t, !.cookie = req[w].cookie,
                          !.body = req[w].body]
       IN  IF t = NoToken
           THEN /\ resp' = [resp EXCEPT ![w] = base(400, {"error"})]
                /\ pc' = [pc EXCEPT ![w] = "idle"]
                /\ req' = [req EXCEPT ![w] = NoReq]
           ELSE IF TokenError(t) \/ ~BLACKLIST_APP_INSTALLED
           THEN \* except Exception: 'Logout failed.'
                /\ resp' = [resp EXCEPT ![w] = base(400, {"error", "details"})]
                /\ pc' = [pc EXCEPT ![w] = "idle"]
                /\ req' = [req EXCEPT ![w] = NoReq]
           ELSE /\ pc' = [pc EXCEPT ![w] = "logout_blacklist"]
                /\ UNCHANGED <<resp, req>>
    /\ UNCHANGED <<conc, authVars, refreshed, storeVars, eventVars>>
    /\ UNCHANGED limitVars

\* token.blacklist(), then the 200 response that deletes the cookie
logout_view_blacklist(w) ==
    /\ pc[w] = "logout_blacklist"
    /\ LET t == req[w].token
       IN  /\ blacklist' = Blacklist(blacklist, t)
           /\ loggedOut' = loggedOut \cup {t}
           /\ resp' = [resp EXCEPT ![w] =
                  [Response("logout", 200, {"message"})
                      EXCEPT !.token = t, !.delete_cookie = TRUE,
                             !.cookie = req[w].cookie, !.body = req[w].body]]
    /\ pc' = [pc EXCEPT ![w] = "idle"]
    /\ req' = [req EXCEPT ![w] = NoReq]
    /\ UNCHANGED <<conc, outstanding, expired, hasRotate, refreshed,
                   storeVars, eventVars>>
    /\ UNCHANGED limitVars

\* time passes beyond REFRESH_TOKEN_LIFETIME of a token
ExpireToken(t) ==
    /\ t \in outstanding \ expired
    /\ expired' = expired \cup {t}
    /\ UNCHANGED <<outstanding, blacklist, hasRotate, loggedOut, refreshed,
                   slotVars, storeVars, eventVars>>
    /\ UNCHANGED limitVars

---------------------------------------------------------------------------
(* Password validators: apps/users/validators.py *)

\* a validator without the digit requirement
CustomPasswordValidator_NoDigitCheck(password) ==
    (IF Len(password) < 8 THEN {"too_short"} ELSE {})
    \cup (IF ~HasUpper(password) THEN {"no_upper"} ELSE {})
    \cup (IF ~HasLower(password) THEN {"no_lower"} ELSE {})

\* CustomPasswordValidator.validate: every violated requirement is appended
\* to `errors` before ValidationError(errors) is raised
CustomPasswordValidator(password) ==
    (IF Len(password) < 8 THEN {"too_short"} ELSE {})
    \cup (IF ~HasUpper(password) THEN {"no_upper"} ELSE {})
    \cup (IF ~HasLower(password) THEN {"no_lower"} ELSE {})
    \cup (IF ~HasDigit(password) THEN {"no_digit"} ELSE {})

\* NoCommonPasswordValidator.COMMON_PASSWORDS
COMMON_PASSWORDS == {
    <<"p","a","s","s","w","o","r","d">>,
    <<"p","a","s","s","w","o","r","d","1","2","3">>,
    <<"1","2","3","4","5","6">>,
    <<"1","2","3","4","5","6","7","8","9">>,
    <<"q","w","e","r","t","y">>,
    <<"a","b","c","1","2","3">>,
    <<"p","a","s","s","w","o","r","d","1">>,
    <<"a","d","m","i","n">>,
    <<"l","e","t","m","e","i","n">>,
    <<"w","e","l","c","o","m","e">>,
    <<"m","o","n","k","e","y">>,
    <<"1","2","3","4","5","6","7","8","9","0">>,
    <<"d","r","a","g","o","n">>,
    <<"m","a","s","t","e","r">>,
    <<"h","e","l","l","o">>,
    <<"l","o","g","i","n">>,
    <<"p","a","s","s">>,
    <<"a","d","m","i","n","1","2","3">>,
    <<"r","o","o","t">>,
    <<"u","s","e","r">>}

\* NoCommonPasswordValidator.validate
NoCommonPasswordValidator(password) ==
    IF lower(password) \in COMMON_PASSWORDS THEN {"too_common"} ELSE {}

\* validate_password(value) is called without a user object
NoUser == [attributes |-> <<>>, organization_name |-> <<>>]

\* UserAttributeSimilarityValidator.validate
UserAttributeSimilarityValidator(password, user) ==
    IF user = NoUser THEN {}
    ELSE LET pw == lower(password)
             similar(value) ==
                 /\ value # <<>>
                 /\ \/ Len(value) >= 3 /\ Contains(pw, lower(value))
                    \/ Len(pw) >= 3 /\ Contains(lower(value), pw)
             org == lower(user.organization_name)
         IN  IF \/ \E i \in DOMAIN user.attributes : similar(user.attributes[i])
                \/ /\ org # <<>>
                   /\ Len(org) >= 3
                   /\ (Contains(pw, org) \/ Contains(org, pw))
             THEN {"too_similar"}
             ELSE {}

\* settings.AUTH_PASSWORD_VALIDATORS: the validators validate_password runs
AUTH_PASSWORD_VALIDATORS ==
    <<"UserAttributeSimilarityValidator", "CustomPasswordValidator",
      "NoCommonPasswordValidator">>

\* django.contrib.auth.password_validation.validate_password(password, user):
\* every configured validator runs and the errors of all of them are raised
validate_password(password, user) ==
    UNION { IF AUTH_PASSWORD_VALIDATORS[i] = "CustomPasswordValidator"
               THEN CustomPasswordValidator(password)
            ELSE IF AUTH_PASSWORD_VALIDATORS[i] = "NoCommonPasswordValidator"
               THEN NoCommonPasswordValidator(password)
            ELSE UserAttributeSimilarityValidator(password, user)
          : i \in DOMAIN AUTH_PASSWORD_VALIDATORS }

---------------------------------------------------------------------------
(* Registration: UserRegistrationSerializer and register_view *)

\* min_length of the serializer's password field
MinLength == 8

\* the password field's own validation (CharField, min_length=8); when it
\* fails, validate_password of the serializer is not called
PasswordFieldErrors(password) ==
    IF password = <<>> THEN {"blank"}
    ELSE IF Len(password) < MinLength THEN {"too_short"}
    ELSE {}

\* UserRegistrationSerializer.validate_password
Serializer_validate_password(password) ==
    LET field == PasswordFieldErrors(password)
    IN  IF field # {} THEN field ELSE validate_password(password, NoUser)

\* User.objects.filter(email=value).exists(): an exact comparison
EmailExists(value) == \E i \in DOMAIN users : users[i].email = value

\* UserRegistrationSerializer.validate_email
Serializer_validate_email(value) ==
    IF EmailExists(value) THEN {"email_taken"} ELSE {}

\* UserRegistrationSerializer.validate: runs only when no field failed
Serializer_validate(attrs) ==
    IF attrs.password # attrs.password_confirm
    THEN {"confirm_mismatch"} ELSE {}

\* serializer.is_valid(): the errors of every field, else those of validate()
SerializerErrors(data) ==
    LET fields == Serializer_validate_email(data.email)
                  \cup Serializer_validate_password(data.password)
    IN  IF fields # {} THEN fields ELSE Serializer_validate(data)

\* the role UserRegistrationSerializer.create gives the new profile; `role`
\* is no field of the serializer, so a submitted value never reaches create
ProfileRole(data) == "vendor"

\* UserProfile.is_verified: default=False, not set by create
ProfileVerified(data) == FALSE

\* the e-mail address is, as the store holds it, that of an existing row
EmailBelongs(e) ==
    \E i \in DOMAIN users : users[i].email = normalize_email(e)

\* serializer = UserRegistrationSerializer(data=request.data); is_valid()
register_view_is_valid(w, data) ==
    /\ pc[w] = "idle"
    /\ LET errors == SerializerErrors(data)
           r == [NoReq EXCEPT !.op = "register", !.data = data,
                              !.taken = EmailBelongs(data.email)]
       IN  IF errors # {}
           THEN /\ resp' = [resp EXCEPT ![w] =
                      [Response("register", 400, {"error", "details"})
                          EXCEPT !.data = data, !.errors = errors,
                                 !.taken = r.taken]]
                /\ UNCHANGED <<pc, req>>
           ELSE /\ pc' = [pc EXCEPT ![w] = "create_user"]
                /\ req' = [req EXCEPT ![w] = r]
                /\ UNCHANGED resp
    /\ conc' = Overlap(w)
    /\ UNCHANGED <<authVars, refreshed, storeVars, eventVars>>
    /\ UNCHANGED limitVars

\* User.objects.create_user(username=email, email=email, ...): the username
\* column is unique, the e-mail is stored normalized
register_view_create_user(w) ==
    /\ pc[w] = "create_user"
    /\ LET data == req[w].data
       IN  IF \E i \in DOMAIN users : users[i].username = data.email
           THEN \* IntegrityError, caught by `except Exception`
                /\ resp' = [resp EXCEPT ![w] =
                      [Response("register", 500, {"error", "details"})
                          EXCEPT !.data = data, !.taken = req[w].taken]]
                /\ pc' = [pc EXCEPT ![w] = "idle"]
                /\ req' = [req EXCEPT ![w] = NoReq]
                /\ UNCHANGED users
           ELSE /\ Len(users) < MaxUsers
                /\ users' = Append(users,
                      [username |-> data.email,
                       email |-> normalize_email(data.email),
                       password |-> data.password,
                       first_name |-> data.first_name,
                       last_name |-> data.last_name])
                /\ pc' = [pc EXCEPT ![w] = "create_profile"]
                /\ req' = [req EXCEPT ![w].user = Len(users) + 1]
                /\ UNCHANGED resp
    /\ UNCHANGED <<conc, profiles, authVars, refreshed, eventVars>>
    /\ UNCHANGED limitVars

\* UserProfile.objects.create(user=user, role='vendor', ...), then the 201
register_view_create_profile(w) ==
    /\ pc[w] = "create_profile"
    /\ profiles' = Append(profiles,
          [user |-> req[w].user,
           role |-> ProfileRole(req[w].data),
           is_verified |-> ProfileVerified(req[w].data),
           organization_name |-> req[w].data.organization_name])
    /\ resp' = [resp EXCEPT ![w] =
          [Response("register", 201, {"message", "user"})
              EXCEPT !.data = req[w].data, !.taken = req[w].taken,
                     !.created = TRUE]]
    /\ pc' = [pc EXCEPT ![w] = "idle"]
    /\ req' = [req EXCEPT ![w] = NoReq]
    /\ UNCHANGED <<conc, users, authVars, refreshed, eventVars>>
    /\ UNCHANGED limitVars

\* the profile write raises (a database error): `except Exception` answers
\* 500; create() runs in no transaction, so the User row stays
register_view_profile_fails(w) ==
    /\ pc[w] = "create_profile"
    /\ resp' = [resp EXCEPT ![w] =
          [Response("register", 500, {"error", "details"})
              EXCEPT !.data = req[w].data, !.taken = req[w].taken,
                     !.created = TRUE]]
    /\ pc' = [pc EXCEPT ![w] = "idle"]
    /\ req' = [req EXCEPT ![w] = NoReq]
    /\ UNCHANGED <<conc, storeVars, authVars, refreshed, eventVars>>
    /\ UNCHANGED limitVars

---------------------------------------------------------------------------
(* Event list: apps/events/views.py *)

\* CustomPageNumberPagination.page_size and max_page_size
PAGE_SIZE == 20
MAX_PAGE_SIZE == 100

\* a query parameter that is absent, and one that is given
Absent == [given |-> FALSE, value |-> <<>>]
Param(v) == [given |-> TRUE, value |-> v]

\* the __icontains lookup
icontains(field, value) == Contains(lower(field), lower(value))

\* int(s) for a string of decimal digits; -1 stands for ValueError
DigitValue(c) == (CHOOSE i \in DOMAIN DigitSeq : DigitSeq[i] = c) - 1

RECURSIVE DigitsValue(_)
DigitsValue(s) ==
    IF s = <<>> THEN 0
    ELSE 10 * DigitsValue(SubSeq(s, 1, Len(s) - 1)) + DigitValue(s[Len(s)])

ParseInt(s) ==
    IF s # <<>> /\ \A i \in DOMAIN s : IsDigit(s[i])
    THEN DigitsValue(s) ELSE -1

\* EventListAPIView.get_cache_key: the string that is hashed.  md5 is taken
\* to be collision-free, so the key is the string itself
get_cache_key(city, category, page) ==
    <<"c","i","t","y",":">> \o city.value
    \o <<"|","c","a","t","e","g","o","r","y",":">> \o category.value
    \o <<"|","p","a","g","e",":">> \o (IF page.given THEN page.value ELSE <<"1">>)

\* EventListAPIView.get_queryset: the ids of the matching rows
get_queryset(city, category) ==
    { i \in DOMAIN events :
        /\ events[i].status = "approved"
        /\ city.given => icontains(events[i].city, city.value)
        /\ category.given => icontains(events[i].category, category.value) }

\* order_by('-event_date'): every order of the rows that is descending in
\* event_date (the database fixes no order among equal dates)
Orderings(ids) ==
    { o \in [1..Cardinality(ids) -> ids] :
        /\ \A i, j \in DOMAIN o : i # j => o[i] # o[j]
        /\ \A i, j \in DOMAIN o :
              i < j => events[o[i]].event_date >= events[o[j]].event_date }

\* PageNumberPagination.get_page_size
get_page_size(page_size) ==
    IF ~page_size.given THEN PAGE_SIZE
    ELSE LET n == ParseInt(page_size.value)
         IN  IF n <= 0 THEN PAGE_SIZE
             ELSE IF n > MAX_PAGE_SIZE THEN MAX_PAGE_SIZE ELSE n

\* Paginator.num_pages (allow_empty_first_page)
num_pages(count, per_page) ==
    IF count = 0 THEN 1 ELSE (count + per_page - 1) \div per_page

\* get_page_number and Paginator.validate_number; 0 stands for InvalidPage
page_number(page, pages) ==
    IF ~page.given THEN 1
    ELSE IF page.value = <<"l","a","s","t">> THEN pages
    ELSE LET n == ParseInt(page.value)
         IN  IF n < 1 \/ n > pages THEN 0 ELSE n

NoPage == [count |-> 0, results |-> <<>>, next |-> FALSE, previous |-> FALSE]

\* get_paginated_response(serializer.data).data for page n of ordering o
PageData(o, n, per_page) ==
    LET first == (n - 1) * per_page + 1
        last  == IF n * per_page < Len(o) THEN n * per_page ELSE Len(o)
    IN  [count |-> Len(o), results |-> SubSeq(o, first, last),
         next |-> (n < num_pages(Len(o), per_page)), previous |-> (n > 1)]

\* cache.get(cache_key)
Cached(key) == \E e \in cache : e.key = key
CacheGet(key) == (CHOOSE e \in cache : e.key = key).value

\* entries the cache holds at once
MaxCacheEntries == 1

\* cache.set(cache_key, response_data, 300): the possible caches afterwards;
\* a full cache drops an entry to make room
CacheSet(key, value) ==
    LET others == {e \in cache : e.key # key}
        new    == [key |-> key, value |-> value]
    IN  IF Cardinality(others) < MaxCacheEntries
        THEN {others \cup {new}}
        ELSE {(others \ {e}) \cup {new} : e \in others}

\* the moderation status each returned item has when the response is sent
StatusNow(results) == [i \in DOMAIN results |-> events[results[i]].status]

\* the query parameters of a list request
Params(city, category, page, page_size) ==
    [city |-> city, category |-> category, page |-> page,
     page_size |-> page_size]

NoListResp == [seq |-> 0, status |-> 0, data |-> NoPage, from_cache |-> FALSE,
               returned_status |-> <<>>,
               params |-> Params(Absent, Absent, Absent, Absent),
               cache_up |-> TRUE]

ListResponse(status, data, from_cache) ==
    [NoListResp EXCEPT !.seq = 1 - listResp.seq, !.status = status,
                       !.data = data, !.from_cache = from_cache,
                       !.returned_status = StatusNow(data.results)]

\* EventListAPIView.list; cache_up tells whether the cache backend answers
\* this request or raises
EventListAPIView_list(city, category, page, page_size, cache_up) ==
    /\ LET key == get_cache_key(city, category, page)
           answer(status, data, from_cache) ==
               [ListResponse(status, data, from_cache)
                   EXCEPT !.params = Params(city, category, page, page_size),
                          !.cache_up = cache_up]
       IN  IF ~cache_up
           THEN \* cache.get raises: except Exception
                /\ listResp' = answer(500, NoPage, FALSE)
                /\ UNCHANGED cache
           ELSE IF Cached(key)
           THEN /\ listResp' = answer(200, CacheGet(key), TRUE)
                /\ UNCHANGED cache
           ELSE \E o \in Orderings(get_queryset(city, category)) :
                  LET per_page == get_page_size(page_size)
                      n == page_number(page, num_pages(Len(o), per_page))
                  IN  IF n = 0
                      THEN \* InvalidPage -> NotFound
                           /\ listResp' = answer(404, NoPage, FALSE)
                           /\ UNCHANGED cache
                      ELSE /\ listResp' =
                                answer(200, PageData(o, n, per_page), FALSE)
                           /\ cache' \in CacheSet(key, PageData(o, n, per_page))
    /\ UNCHANGED <<events, authVars, refreshed, storeVars, slotVars>>
    /\ UNCHANGED limitVars

\* the 5 minute lifetime of a cache entry elapses
CacheExpire(e) ==
    /\ e \in cache
    /\ cache' = cache \ {e}
    /\ UNCHANGED <<events, listResp, authVars, refreshed, storeVars, slotVars>>
    /\ UNCHANGED limitVars

\* rows of Event a run may create
MaxEvents == 2

\* an Event row is saved (vendor submission or admin console)
CreateEvent(city, category, date, status) ==
    /\ Len(events) < MaxEvents
    /\ events' = Append(events, [city |-> city, category |-> category,
                                 event_date |-> date, status |-> status])
    /\ UNCHANGED <<cache, listResp, authVars, refreshed, storeVars, slotVars>>
    /\ UNCHANGED limitVars

\* EventAdmin: a moderator changes the status of an event
SetStatus(i, status) ==
    /\ i \in DOMAIN events
    /\ events[i].status # status
    /\ events' = [events EXCEPT ![i].status = status]
    /\ UNCHANGED <<cache, listResp, authVars, refreshed, storeVars, slotVars>>
    /\ UNCHANGED limitVars

---------------------------------------------------------------------------
(* Rate limiting: the django_ratelimit decorators of apps/users/views.py *)

\* the decorated views; each is a group of the limiter with its own counters
Groups == {"register", "login", "refresh", "logout"}

\* client addresses (key='ip')
IPs == {"ip1", "ip2"}

\* rate='3/m' on register_view, '5/m' on login, '10/m' on refresh and logout
RegisterRate == 3
LoginRate == 5
RefreshRate == 10
LogoutRate == 10

Rate(group) ==
    CASE group = "register" -> RegisterRate
      [] group = "login"    -> LoginRate
      [] group = "refresh"  -> RefreshRate
      [] group = "logout"   -> LogoutRate

\* requests counted beyond the limit of a group before the window ends
MaxOver == 1
\* POST requests one address sends in one window: the first, the second
MaxRequests == 11
MaxOtherRequests == 1

Budget(ip) == IF ip = "ip1" THEN MaxRequests ELSE MaxOtherRequests

Sent(ip) ==
    hits[<<"register", ip>>] + hits[<<"login", ip>>]
    + hits[<<"refresh", ip>>] + hits[<<"logout", ip>>]

NoGate == [group |-> "none", ip |-> "none", count |-> 0]

\* django_ratelimit is_ratelimited(increment=True): the request is limited
\* when the incremented count of its key exceeds the limit
is_ratelimited(count, group) == count > Rate(group)

\* the status a blocked request is answered with.  With block=True the
\* decorator raises Ratelimited, a django PermissionDenied, before the view
\* function and its `except Ratelimited` clause are entered; the exception
\* handler of rest_framework answers a PermissionDenied with 403
RatelimitedStatus == 403

\* the decorator's wrapper takes a POST request of `ip` for the view `group`:
\* it counts the request and either raises Ratelimited or calls the view
ratelimit(w, group, ip) ==
    /\ pc[w] = "idle"
    /\ resp[w].op # "admitted"
    /\ hits[<<group, ip>>] < Rate(group) + MaxOver
    /\ Sent(ip) < Budget(ip)
    /\ LET count == hits[<<group, ip>>] + 1
       IN  /\ hits' = [hits EXCEPT ![<<group, ip>>] = count]
           /\ gate' = [gate EXCEPT ![w] =
                  [group |-> group, ip |-> ip, count |-> count]]
           /\ resp' = [resp EXCEPT ![w] =
                  IF is_ratelimited(count, group)
                  THEN Response(group, RatelimitedStatus, {"detail"})
                  ELSE Response("admitted", 0, {})]
    /\ UNCHANGED <<pc, req, conc, authVars, refreshed, storeVars, eventVars>>

\* a wrapper that calls the view whatever the limiter decided
Admitted_Refused(w, group) == gate[w].group = group

\* the wrapper has let the request of slot w through to the view `group`
Admitted(w, group) == resp[w].op = "admitted" /\ gate[w].group = group

\* the window of an address ends: its counters start again (the window is
\* part of the cache key of a counter)
WindowElapse(ip) ==
    /\ Sent(ip) > 0
    /\ hits' = [k \in DOMAIN hits |-> IF k[2] = ip THEN 0 ELSE hits[k]]
    /\ UNCHANGED <<gate, slotVars, authVars, refreshed, storeVars, eventVars>>

\* the views as the wrapper calls them
ratelimit_register_view(w, data) ==
    Admitted(w, "register") /\ register_view_is_valid(w, data)

ratelimit_post(w, username, password) ==
    Admitted(w, "login") /\ CustomTokenObtainPairView_post(w, username, password)

ratelimit_refresh_token_view(w, cookie, body) ==
    Admitted(w, "refresh") /\ refresh_token_view_begin(w, cookie, body)

ratelimit_logout_view(w, cookie, body) ==
    Admitted(w, "logout") /\ logout_view_begin(w, cookie, body)

---------------------------------------------------------------------------
(* Inputs *)

LowerDomain == <<"x",".","c","o","m">>
UpperDomain == <<"X",".","C","O","M">>

\* a first name and a last name
Ann == <<"A","n","n">>
Lee == <<"L","e","e">>

\* a password that passes every validator, and a second one
GoodPassword  == <<"S","e","c","u","r","3","P","d">>
OtherPassword == <<"D","i","f","f","e","r","3","n","t">>

\* the account that exists when the token endpoints are exercised
Alice == [username |-> Email("a", LowerDomain),
          email |-> Email("a", LowerDomain),
          password |-> GoodPassword,
          first_name |-> Ann, last_name |-> Lee]
AliceProfile == [user |-> 1, role |-> "vendor", is_verified |-> FALSE,
                 organization_name |-> <<>>]

\* the names an account can have
FirstNames == {<<>>, Ann, <<"B","o">>}
LastNames == {<<>>, Lee}
OrganizationNames == {<<>>, <<"A","c","m","e">>}

LoginNames == {Email("a", LowerDomain), Email("b", LowerDomain), NoEmail}
LoginPasswords == {GoodPassword, OtherPassword, <<>>}

\* passwords submitted to registration: a stem and a tail
PasswordStems == {
    <<>>,
    <<"p","a","s","s","w","o","r">>,
    <<"P","a","s","s","w","o","r">>,
    <<"P","A","S","S","W","O","R">>,
    <<"S","e","c","u","r","3","P">>,
    <<"A","d","m","i","n","1","2">>,
    <<"A","n","n","L","e","e","1">>}

TailChars == {"d", "3", "!"}
Passwords == {stem \o tail : stem \in PasswordStems,
                             tail \in SeqsUpTo(TailChars, MaxTail)}

RegData(email, password, confirm, role, is_verified) ==
    [email |-> email, password |-> password, password_confirm |-> confirm,
     role |-> role, is_verified |-> is_verified,
     first_name |-> Ann, last_name |-> Lee, organization_name |-> <<>>]

\* registration requests of the concurrent runs: valid passwords, e-mail
\* addresses that differ in the case of the domain, with and without
\* client-supplied role and verification values
RegInputs ==
    { RegData(Email("a", d), GoodPassword, GoodPassword, x[1], x[2]) :
        d \in {LowerDomain, UpperDomain},
        x \in {<<"", FALSE>>, <<"admin", TRUE>>} }

\* registration requests of the password runs
PasswordInputs ==
    { RegData(Email("a", LowerDomain), p, IF same THEN p ELSE OtherPassword,
              "", FALSE) :
        p \in Passwords, same \in BOOLEAN }

EventCities == {<<"P","u","n","e">>, <<"D","e","l","h","i">>}
EventCategories == {<<"M","u","s","i","c">>}
EventDates == {1, 2}
EventStatuses == {"pending", "approved", "rejected"}

CityParams == {Absent, Param(<<>>), Param(<<"p","u","n","e">>)}
CategoryParams == {Absent, Param(<<"m","u","s">>)}
PageParams == {Absent, Param(<<"2">>), Param(<<"x">>)}
PageSizeParams == {Absent, Param(<<"1">>)}

\* the list requests sent: every combination of the two filters on the
\* first page, and every combination of page and page size without a filter
ListRequests ==
    { Params(city, category, Absent, Absent) :
        city \in CityParams, category \in CategoryParams }
    \cup { Params(Absent, Absent, page, page_size) :
        page \in PageParams, page_size \in PageSizeParams }

---------------------------------------------------------------------------
(* Specifications *)

InitSlots ==
    /\ pc = [w \in Workers |-> "idle"]
    /\ req = [w \in Workers |-> NoReq]
    /\ resp = [w \in Workers |-> NoResp]
    /\ conc = [w \in Workers |-> {}]

InitTokens ==
    /\ outstanding = {}
    /\ blacklist = {}
    /\ expired = {}
    /\ loggedOut = {}
    /\ refreshed = {}

InitEvents ==
    /\ events = <<>>
    /\ cache = {}
    /\ listResp = NoListResp

InitLimiter ==
    /\ hits = [k \in Groups \X IPs |-> 0]
    /\ gate = [w \in Workers |-> NoGate]

\* the token endpoints, with one registered account, one request at a time
Init ==
    /\ users = <<Alice>>
    /\ profiles = <<AliceProfile>>
    /\ hasRotate \in BOOLEAN
    /\ InitTokens /\ InitSlots /\ InitEvents /\ InitLimiter

Next ==
    \/ \E u \in LoginNames, p \in LoginPasswords :
          CustomTokenObtainPairView_post("w1", u, p)
    \/ \E cookie \in TokenInputs, body \in TokenInputs :
          refresh_token_view_begin("w1", cookie, body)
    \/ refresh_token_view("w1")
    \/ \E cookie \in TokenInputs, body \in TokenInputs :
          logout_view_begin("w1", cookie, body)
    \/ logout_view_verify("w1")
    \/ logout_view_blacklist("w1")
    \/ \E t \in 1..MaxTokens : ExpireToken(t)

Spec == Init /\ [][Next]_vars

\* refresh and logout requests of two request slots interleaved, for the
\* refresh token of one login
InitConcurrent ==
    /\ users = <<Alice>>
    /\ profiles = <<AliceProfile>>
    /\ hasRotate \in BOOLEAN
    /\ outstanding = {1}
    /\ blacklist = {}
    /\ expired = {}
    /\ loggedOut = {}
    /\ refreshed = {}
    /\ InitSlots /\ InitEvents /\ InitLimiter

NextConcurrent ==
    \/ \E w \in Workers, cookie \in {NoToken, 1}, body \in {NoToken, 1} :
          refresh_token_view_begin(w, cookie, body)
    \/ \E w \in Workers : refresh_token_view(w)
    \/ \E w \in Workers, cookie \in {NoToken, 1}, body \in {NoToken, 1} :
          logout_view_begin(w, cookie, body)
    \/ \E w \in Workers : logout_view_verify(w)
    \/ \E w \in Workers : logout_view_blacklist(w)

SpecConcurrent == InitConcurrent /\ [][NextConcurrent]_vars

\* registration, from an empty store
InitRegister ==
    /\ users = <<>>
    /\ profiles = <<>>
    /\ hasRotate = FALSE
    /\ InitTokens /\ InitSlots /\ InitEvents /\ InitLimiter

NextRegister ==
    \/ \E w \in Workers, d \in RegInputs : register_view_is_valid(w, d)
    \/ \E w \in Workers : register_view_create_user(w)
    \/ \E w \in Workers : register_view_create_profile(w)
    \/ \E w \in Workers : register_view_profile_fails(w)

SpecRegister == InitRegister /\ [][NextRegister]_vars

\* registration with the whole range of passwords, one request at a time
NextPassword ==
    \/ \E d \in PasswordInputs : register_view_is_valid("w1", d)
    \/ register_view_create_user("w1")
    \/ register_view_create_profile("w1")
    \/ register_view_profile_fails("w1")

SpecPassword == InitRegister /\ [][NextPassword]_vars

\* the public event list and the moderation of events
InitList ==
    /\ users = <<Alice>>
    /\ profiles = <<AliceProfile>>
    /\ hasRotate = FALSE
    /\ InitTokens /\ InitSlots /\ InitEvents /\ InitLimiter

NextEvents ==
    \/ \E r \in ListRequests, cache_up \in BOOLEAN :
          EventListAPIView_list(r.city, r.category, r.page, r.page_size,
                                cache_up)
    \/ \E e \in cache : CacheExpire(e)
    \/ \E city \in EventCities, category \in EventCategories,
          date \in EventDates, status \in EventStatuses :
          CreateEvent(city, category, date, status)
    \/ \E i \in 1..MaxEvents, status \in EventStatuses : SetStatus(i, status)

SpecEvents == InitList /\ [][NextEvents]_vars

\* the event list over a table that does not change while it is read
EventRows ==
    [city : EventCities, category : EventCategories,
     event_date : EventDates, status : EventStatuses]

InitPages ==
    /\ users = <<Alice>>
    /\ profiles = <<AliceProfile>>
    /\ hasRotate = FALSE
    /\ InitTokens /\ InitSlots /\ InitLimiter
    /\ events \in UNION {[1..n -> EventRows] : n \in 0..MaxEvents}
    /\ cache = {}
    /\ listResp = NoListResp

NextPages ==
    \/ \E r \in ListRequests, cache_up \in BOOLEAN :
          EventListAPIView_list(r.city, r.category, r.page, r.page_size,
                                cache_up)
    \/ \E e \in cache : CacheExpire(e)

SpecPages == InitPages /\ [][NextPages]_vars

\* the four decorated views behind the rate limiter, one request at a time;
\* the requests are refused by the views themselves, so that only the
\* limiter's counters move
LimitedData ==
    RegData(Email("a", LowerDomain), OtherPassword, GoodPassword, "", FALSE)

NextLimit ==
    \/ \E g \in Groups, ip \in IPs : ratelimit("w1", g, ip)
    \/ \E ip \in IPs : WindowElapse(ip)
    \/ ratelimit_register_view("w1", LimitedData)
    \/ ratelimit_post("w1", Email("a", LowerDomain), OtherPassword)
    \/ \E cookie \in {NoToken, Garbage} :
          ratelimit_refresh_token_view("w1", cookie, NoToken)
    \/ refresh_token_view("w1")
    \/ \E cookie \in {NoToken, Garbage} :
          ratelimit_logout_view("w1", cookie, NoToken)
    \/ logout_view_verify("w1")

SpecLimit == InitList /\ [][NextLimit]_vars

\* logins of one account, for every combination of its names
InitNames ==
    /\ \E f \in FirstNames, l \in LastNames :
          users = <<[Alice EXCEPT !.first_name = f, !.last_name = l]>>
    /\ \/ profiles = <<>>
       \/ \E o \in OrganizationNames :
             profiles = <<[AliceProfile EXCEPT !.organization_name = o]>>
    /\ hasRotate = FALSE
    /\ InitTokens /\ InitSlots /\ InitEvents /\ InitLimiter

NextNames ==
    \E u \in LoginNames, p \in LoginPasswords :
        CustomTokenObtainPairView_post("w1", u, p)

SpecNames == InitNames /\ [][NextNames]_vars

\* list requests whose parameter values hold the separators of the cache
\* key
KeyRequests ==
    { Params(Absent, Absent, Absent, Absent),
      Params(Absent, Absent, Param(<<"2">>), Absent),
      Params(Absent, Param(<<"|","p","a","g","e",":","2">>), Absent, Absent),
      Params(Absent, Param(<<>>), Param(<<"2","|","p","a","g","e",":","1">>),
             Absent) }

NextKeys ==
    \/ \E r \in KeyRequests, cache_up \in BOOLEAN :
          EventListAPIView_list(r.city, r.category, r.page, r.page_size,
                                cache_up)
    \/ \E e \in cache : CacheExpire(e)

SpecKeys == InitPages /\ [][NextKeys]_vars

---------------------------------------------------------------------------
(* Properties *)

\* C1: once a logout with refresh token T has returned 200, every refresh
\* request that arrives later carrying T (in the cookie, or in the body when
\* there is no cookie) is answered 401 and issues no access token.
C1_RefreshAfterLogoutFails ==
    \A w \in Workers :
        (resp[w].op = "refresh" /\ resp[w].later) =>
            /\ resp[w].status = 401
            /\ resp[w].access = NoToken
            /\ "access" \notin resp[w].fields

C1_Witness ==
    \E w \in Workers :
        /\ resp[w].op = "refresh"
        /\ resp[w].later
        /\ resp[w].token \in loggedOut
        /\ resp[w].status = 401

\* C2: with rotation active, a refresh that succeeds with token T puts T on
\* the blacklist and sets a new refresh token as the cookie, and a refresh
\* that arrives with T after that is answered 401.
C2_RefreshRotates ==
    ROTATE_REFRESH_TOKENS =>
        \A w \in Workers :
            /\ (resp[w].op = "refresh" /\ resp[w].status = 200) =>
                  /\ resp[w].token \in blacklist
                  /\ resp[w].set_cookie \notin {NoToken, resp[w].token}
            /\ (resp[w].op = "refresh" /\ resp[w].reused) =>
                  resp[w].status = 401

\* C3: of two refresh requests that carry the same refresh token and are
\* processed concurrently, at most one is answered 200.
C3_AtMostOneConcurrentRefresh ==
    \A w, v \in Workers :
        ( /\ w # v
          /\ pc[w] = "idle" /\ pc[v] = "idle"
          /\ resp[w].op = "refresh" /\ resp[v].op = "refresh"
          /\ v \in conc[w] /\ w \in conc[v]
          /\ resp[w].token # NoToken
          /\ resp[w].token = resp[v].token )
        => ~(resp[w].status = 200 /\ resp[v].status = 200)

\* C4: every item of every 200 response of the event list, served from the
\* cache or not, is an event whose status is `approved` when the response
\* is returned.
C4_OnlyApprovedReturned ==
    listResp.status = 200 =>
        \A i \in DOMAIN listResp.returned_status :
            listResp.returned_status[i] = "approved"

UsersWithEmail(e) ==
    {i \in DOMAIN users : users[i].email = normalize_email(e)}

ProfilesOf(i) == {j \in DOMAIN profiles : profiles[j].user = i}

\* C6: after a registration answered 201 exactly one User has the submitted
\* e-mail, and it has exactly one Profile, with role `vendor` and not
\* verified, whatever role or verification value the request carried.
C6_RegisteredVendorProfile ==
    \A w \in Workers :
        (resp[w].op = "register" /\ resp[w].status = 201) =>
            /\ Cardinality(UsersWithEmail(resp[w].data.email)) = 1
            /\ \A i \in UsersWithEmail(resp[w].data.email) :
                  /\ Cardinality(ProfilesOf(i)) = 1
                  /\ \A j \in ProfilesOf(i) :
                        /\ profiles[j].role = "vendor"
                        /\ ~profiles[j].is_verified

\* C7: registration is atomic: when no registration is between its two
\* writes, every User has its Profile, also after a registration that ended
\* in an error.
C7_RegistrationAtomic ==
    (\A w \in Workers : pc[w] # "create_profile") =>
        \A i \in DOMAIN users : ProfilesOf(i) # {}

\* a password the registration must refuse
WeakPassword(p) ==
    \/ Len(p) < 8
    \/ ~HasUpper(p)
    \/ ~HasLower(p)
    \/ ~HasDigit(p)
    \/ lower(p) \in COMMON_PASSWORDS

\* C8: a registration whose password is shorter than 8 characters, lacks an
\* upper-case letter, a lower-case letter or a digit, or is a common
\* password when lower-cased, is answered 400 and creates no User and no
\* Profile.
C8_WeakPasswordRejected ==
    /\ \A w \in Workers :
          (resp[w].op = "register" /\ WeakPassword(resp[w].data.password)) =>
              /\ resp[w].status = 400
              /\ ~resp[w].created
    /\ \A w \in Workers :
          pc[w] \in {"create_user", "create_profile"} =>
              ~WeakPassword(req[w].data.password)
    /\ \A i \in DOMAIN users : ~WeakPassword(users[i].password)

\* a password that only the common-password rule refuses was answered 400
C8_Witness ==
    \E w \in Workers :
        LET p == resp[w].data.password
        IN  /\ resp[w].op = "register"
            /\ resp[w].status = 400
            /\ Len(p) >= 8 /\ HasUpper(p) /\ HasLower(p) /\ HasDigit(p)
            /\ lower(p) \in COMMON_PASSWORDS

\* the validation rules a registration request violates
ViolatedRules(data, taken) ==
    (IF Len(data.password) < 8 THEN {"too_short"} ELSE {})
    \cup (IF ~HasUpper(data.password) THEN {"no_upper"} ELSE {})
    \cup (IF ~HasLower(data.password) THEN {"no_lower"} ELSE {})
    \cup (IF ~HasDigit(data.password) THEN {"no_digit"} ELSE {})
    \cup (IF lower(data.password) \in COMMON_PASSWORDS
          THEN {"too_common"} ELSE {})
    \cup (IF data.password # data.password_confirm
          THEN {"confirm_mismatch"} ELSE {})
    \cup (IF taken THEN {"email_taken"} ELSE {})

\* C9: the 400 response to a registration that violates several validation
\* rules lists every violated rule.
C9_AllViolationsListed ==
    \A w \in Workers :
        ( /\ resp[w].op = "register"
          /\ resp[w].status = 400
          /\ resp[w].data.password # <<>> )
        => ViolatedRules(resp[w].data, resp[w].taken) \subseteq resp[w].errors

\* C10: a registration with an e-mail that already belongs to a User is
\* answered 400 with an error on the `email` field and creates no User and
\* no Profile.
C10_DuplicateEmailRejected ==
    \A w \in Workers :
        (resp[w].op = "register" /\ resp[w].taken) =>
            /\ resp[w].status = 400
            /\ "email_taken" \in resp[w].errors
            /\ ~resp[w].created

\* the token the two views are to read from a request
PresentedToken(r) == IF r.cookie # NoToken THEN r.cookie ELSE r.body

\* C11: refresh and logout use the token of the refresh_token cookie when
\* there is one and the body field `refresh` otherwise; with no token in
\* either place they answer 400, leave the blacklist as it is, and neither
\* set nor delete the cookie.
C11_CookieThenBody ==
    [][ \A w \in Workers :
          LET t == PresentedToken(req[w])
          IN  /\ (pc[w] \in {"refresh", "logout"} /\ pc'[w] = "idle") =>
                    IF t = NoToken
                    THEN /\ resp'[w].status = 400
                         /\ blacklist' = blacklist
                         /\ resp'[w].set_cookie = NoToken
                         /\ ~resp'[w].delete_cookie
                    ELSE /\ resp'[w].token = t
                         /\ resp'[w].status = 200 => resp'[w].access = t
              /\ (pc[w] = "logout" /\ pc'[w] = "logout_blacklist") =>
                    t # NoToken
              /\ (pc[w] = "logout_blacklist" /\ pc'[w] = "idle") =>
                    /\ t # NoToken
                    /\ blacklist' = blacklist \cup {t}
      ]_vars

\* a refresh without a cookie succeeded with the token of the body
C11_Witness ==
    \E w \in Workers :
        /\ resp[w].op = "refresh"
        /\ resp[w].status = 200
        /\ resp[w].cookie = NoToken
        /\ resp[w].body \in outstanding
        /\ resp[w].access = resp[w].body

\* C12: a refresh whose token is malformed, expired or blacklisted is
\* answered 401, issues no access token, sets no cookie and leaves the
\* blacklist as it is.
C12_InvalidTokenRefused ==
    [][ \A w \in Workers :
          LET t == req[w].token
          IN  ( /\ pc[w] = "refresh" /\ pc'[w] = "idle"
                /\ t # NoToken
                /\ (t \notin outstanding \/ t \in expired \/ t \in blacklist) )
              => /\ resp'[w].status = 401
                 /\ resp'[w].access = NoToken
                 /\ "access" \notin resp'[w].fields
                 /\ resp'[w].set_cookie = NoToken
                 /\ blacklist' = blacklist
      ]_vars

\* a refresh with an expired token that is not blacklisted was answered 401
C12_Witness ==
    \E w \in Workers :
        /\ resp[w].op = "refresh"
        /\ resp[w].status = 401
        /\ resp[w].token \in expired \ blacklist

\* C13: the response to every logout request that carries a refresh token
\* deletes the refresh_token cookie, whether the token was revoked or the
\* revocation failed.
C13_LogoutClearsCookie ==
    \A w \in Workers :
        (resp[w].op = "logout" /\ PresentedToken(resp[w]) # NoToken) =>
            resp[w].delete_cookie

\* C14: of the POST requests one address sends to one auth endpoint within
\* one window, the first N are passed to the view and every further one is
\* answered 429, with N = 3 for register, 5 for login, 10 for refresh and 10
\* for logout; the requests of another address do not count.
C14_RateLimited ==
    \A w \in Workers :
        gate[w].group # "none" =>
            LET N == CASE gate[w].group = "register" -> 3
                       [] gate[w].group = "login"    -> 5
                       [] gate[w].group = "refresh"  -> 10
                       [] gate[w].group = "logout"   -> 10
            IN  /\ gate[w].count <= N =>
                      /\ resp[w].status \notin {403, 429}
                      /\ resp[w].op \in {"admitted", gate[w].group}
                /\ gate[w].count > N =>
                      /\ resp[w].op = gate[w].group
                      /\ resp[w].status = 429

\* a step in which the list endpoint answers a request
ListStep == listResp'.seq # listResp.seq

\* the events a list request asks for
Matching(p) ==
    { i \in DOMAIN events :
        /\ events[i].status = "approved"
        /\ (p.city.given /\ p.city.value # <<>>) =>
              Contains(lower(events[i].city), lower(p.city.value))
        /\ (p.category.given /\ p.category.value # <<>>) =>
              Contains(lower(events[i].category), lower(p.category.value)) }

\* the page size a list request asks for: 20, the given size, at most 100
RequestedPageSize(p) ==
    IF ~p.page_size.given THEN 20
    ELSE IF ParseInt(p.page_size.value) > 100 THEN 100
    ELSE ParseInt(p.page_size.value)

\* the page a list request asks for
RequestedPage(p) == IF p.page.given THEN ParseInt(p.page.value) ELSE 1

\* the last page of the events a list request asks for
LastPage(p) ==
    LET c == Cardinality(Matching(p))
        n == RequestedPageSize(p)
    IN  IF c = 0 THEN 1 ELSE (c + n - 1) \div n

\* C15: a list request for a page beyond the last page of the events that
\* match its filters is answered 404 and stores nothing in the cache (the
\* cache store working).
C15_BeyondLastPage ==
    [][ ( /\ ListStep
          /\ listResp'.cache_up
          /\ listResp'.params.page.given
          /\ RequestedPageSize(listResp'.params) >= 1
          /\ RequestedPage(listResp'.params) > LastPage(listResp'.params) )
        => /\ listResp'.status = 404
           /\ cache' = cache
      ]_vars

\* C16: a list request whose `page` is not a number is answered 400 (the
\* cache store working).
C16_MalformedPage ==
    ( /\ listResp.status # 0
      /\ listResp.cache_up
      /\ listResp.params.page.given
      /\ ParseInt(listResp.params.page.value) = -1 )
    => listResp.status = 400

\* C17: a 200 response of the list holds exactly the items of the requested
\* page at the page size asked for (20 when absent, the given size up to
\* 100, 100 beyond), whatever was served before (the cache store working).
C17_PageAtRequestedSize ==
    [][ ( /\ ListStep
          /\ listResp'.cache_up
          /\ listResp'.status = 200
          /\ RequestedPageSize(listResp'.params) >= 1 )
        => LET p == listResp'.params
               size == RequestedPageSize(p)
               n == RequestedPage(p)
           IN  \E o \in Orderings(Matching(p)) :
                 LET last == IF n * size < Len(o) THEN n * size ELSE Len(o)
                 IN  /\ listResp'.data.count = Len(o)
                     /\ listResp'.data.results =
                            SubSeq(o, (n - 1) * size + 1, last)
      ]_vars

\* C18: a list request during which the cache store fails is still answered
\* from the event store, with the 200 or 404 it would get without a cache.
C18_CacheFailureTolerated ==
    (listResp.status # 0 /\ ~listResp.cache_up) =>
        /\ listResp.status \in {200, 404}
        /\ ~listResp.from_cache

\* C19: a 200 response of the list counts exactly the approved events whose
\* city contains the `city` value and whose category name contains the
\* `category` value, case-insensitively, and returns none but these; an
\* absent or empty filter restricts nothing (the cache store working).
C19_FiltersExact ==
    [][ ( /\ ListStep
          /\ listResp'.cache_up
          /\ listResp'.status = 200 )
        => /\ listResp'.data.count = Cardinality(Matching(listResp'.params))
           /\ \A i \in DOMAIN listResp'.data.results :
                 listResp'.data.results[i] \in Matching(listResp'.params)
      ]_vars

\* the display name of user i: first and last name joined when both are
\* given, else the organization name of the profile when given, else the
\* username
DisplayName(i) ==
    LET org == {profiles[j].organization_name :
                   j \in {k \in DOMAIN profiles : profiles[k].user = i}}
    IN  IF users[i].first_name # <<>> /\ users[i].last_name # <<>>
        THEN users[i].first_name \o <<" ">> \o users[i].last_name
        ELSE IF org \ {<<>>} # {}
        THEN CHOOSE o \in org \ {<<>>} : TRUE
        ELSE <<users[i].username.local, "@">> \o users[i].username.domain

\* C20: the name claim of an issued token and the name of the user
\* representation both are the display name of the user: full name, else
\* organization name, else username; so the two agree.
C20_DisplayName ==
    \A w \in Workers :
        (resp[w].op = "login" /\ resp[w].status = 200) =>
            /\ resp[w].user_name = DisplayName(resp[w].user)
            /\ resp[w].name_claim = DisplayName(resp[w].user)
            /\ resp[w].name_claim = resp[w].user_name

\* a refresh with token u would be accepted
Accepted(u) == u \in outstanding /\ u \notin expired /\ u \notin blacklist

\* C21: every login issues a refresh token that no earlier login issued, and
\* a refresh or a logout performed with one token leaves unchanged whether
\* any other token is accepted by refresh.
C21_SessionsIndependent ==
    [][ \A w \in Workers :
          /\ (resp'[w] # resp[w] /\ resp'[w].op = "login"
                /\ resp'[w].status = 200) =>
                /\ resp'[w].token \notin outstanding
                /\ resp'[w].token \in outstanding'
          /\ (pc[w] \in {"refresh", "logout", "logout_blacklist"}
                /\ pc'[w] # pc[w]) =>
                \A u \in outstanding \ {req[w].token} :
                    Accepted(u)' = Accepted(u)
      ]_vars

\* after the logout of one token a refresh with the other one succeeded
C21_Witness ==
    \E w \in Workers :
        /\ resp[w].op = "refresh"
        /\ resp[w].status = 200
        /\ \E u \in loggedOut : u # resp[w].token


\* the password and an attribute value are similar: compared without case,
\* one of at least three characters is contained in the other
TooSimilar(password, value) ==
    \/ Len(value) >= 3 /\ Contains(lower(password), lower(value))
    \/ Len(password) >= 3 /\ Contains(lower(value), lower(password))

\* C22: a registration whose password is too similar to the first name, the
\* last name or the organization name of the request is answered 400.
C22_SimilarPasswordRejected ==
    \A w \in Workers :
        ( /\ resp[w].op = "register"
          /\ \E value \in {resp[w].data.first_name, resp[w].data.last_name,
                            resp[w].data.organization_name} :
                 TooSimilar(resp[w].data.password, value) )
        => resp[w].status = 400

\* C23: a logout with a refresh token that an earlier logout already revoked
\* is answered like the first one, with 200, and leaves the blacklist as the
\* first logout left it.
C23_LogoutIdempotent ==
    [][ \A w \in Workers :
          ( /\ pc[w] \in {"logout", "logout_blacklist"} /\ pc'[w] = "idle"
            /\ req[w].token \in loggedOut )
          => /\ resp'[w].status = 200
             /\ blacklist' = blacklist
      ]_vars

\* C24: a logout whose refresh token does not decode to a token this service
\* issued is answered 400 and leaves the blacklist unchanged.
C24_UnparsableLogout ==
    [][ \A w \in Workers :
          ( /\ pc[w] \in {"logout", "logout_blacklist"} /\ pc'[w] = "idle"
            /\ req[w].token # NoToken
            /\ req[w].token \notin outstanding )
          => /\ resp'[w].status = 400
             /\ blacklist' = blacklist
      ]_vars

\* a logout with a string that is no token was answered 400 while a valid
\* token was outstanding
C24_Witness ==
    \E w \in Workers :
        /\ resp[w].op = "logout"
        /\ resp[w].status = 400
        /\ resp[w].token = Garbage
        /\ outstanding # {}
        /\ blacklist = {}

\* a step in which the rate limiter takes a request of slot w
LimiterStep(w) ==
    \E k \in DOMAIN hits :
        /\ hits'[k] = hits[k] + 1
        /\ gate'[w].group = k[1]
        /\ gate'[w].ip = k[2]

\* C25: a request the rate limiter rejects changes nothing but the counter:
\* no User, Profile or token is created, none is blacklisted, its response
\* sets and clears no cookie, and no view is entered for it; when the window
\* of an address has elapsed its counters are zero and its next request is
\* passed to the view.
C25_RejectedChangesNothing ==
    [][ \A w \in Workers :
          /\ (LimiterStep(w) /\ resp'[w].op # "admitted") =>
                /\ UNCHANGED <<users, profiles, outstanding, blacklist,
                               expired, pc, req>>
                /\ resp'[w].token = NoToken
                /\ resp'[w].access = NoToken
                /\ resp'[w].set_cookie = NoToken
                /\ ~resp'[w].delete_cookie
          /\ ( /\ pc[w] = "idle"
                /\ hits' = hits
                /\ (pc'[w] # pc[w] \/ resp'[w] # resp[w]) )
             => resp[w].op = "admitted"
          /\ \A ip \in IPs :
                (\E g \in Groups : hits'[<<g, ip>>] < hits[<<g, ip>>]) =>
                    \A g \in Groups : hits'[<<g, ip>>] = 0
          /\ \A k \in DOMAIN hits :
                (LimiterStep(w) /\ hits[k] = 0 /\ hits'[k] = 1) =>
                    resp'[w].op = "admitted"
      ]_vars

\* a request was rejected by the limiter and the window of its address has
\* elapsed since
C25_Witness ==
    \E w \in Workers :
        /\ gate[w].group # "none"
        /\ gate[w].count > Rate(gate[w].group)
        /\ resp[w].op = gate[w].group
        /\ resp[w].status = RatelimitedStatus
        /\ hits[<<gate[w].group, gate[w].ip>>] = 0

\* C26: the items of a 200 response of the list are in descending order of
\* event_date, and events of equal date are in the order of their insertion
\* (the cache store working).
C26_DateThenInsertionOrder ==
    (listResp.status = 200 /\ listResp.cache_up) =>
        LET r == listResp.data.results
        IN  \A i, j \in DOMAIN r :
              i < j =>
                \/ events[r[i]].event_date > events[r[j]].event_date
                \/ /\ events[r[i]].event_date = events[r[j]].event_date
                   /\ r[i] < r[j]

\* C27: on an unchanged store, for fixed filters and page size, every 200
\* response gives as `count` the number of matching approved events, has
\* `previous` null exactly on page 1 and `next` null exactly on the last
\* page, and two responses in a row return the same items for the same page
\* and disjoint items for different pages (the cache store working).
C27_PagesPartition ==
    [][ ( /\ ListStep
          /\ events' = events
          /\ listResp'.cache_up
          /\ listResp'.status = 200
          /\ RequestedPageSize(listResp'.params) >= 1
          /\ RequestedPage(listResp'.params) >= 1 )
        => LET p == listResp'.params
               q == listResp.params
               new == listResp'.data
               old == listResp.data
               items(r) == {r[i] : i \in DOMAIN r}
           IN  /\ new.count = Cardinality(Matching(p))
               /\ ~new.previous <=> RequestedPage(p) = 1
               /\ ~new.next <=> RequestedPage(p) = LastPage(p)
               /\ ( /\ listResp.status = 200 /\ listResp.cache_up
                     /\ q.city = p.city /\ q.category = p.category
                     /\ q.page_size = p.page_size
                     /\ RequestedPage(q) >= 1 )
                  => IF RequestedPage(q) = RequestedPage(p)
                     THEN new.results = old.results
                     ELSE items(new.results) \cap items(old.results) = {}
      ]_vars

\* C28: a 500 response of the registration carries the fixed message only:
\* its body has the `error` field and no field that holds the text of the
\* exception.
C28_NoInternalDetail ==
    \A w \in Workers :
        (resp[w].op = "register" /\ resp[w].status = 500) =>
            resp[w].fields = {"error"}

\* the (city, category, page) triple of a list request, an absent parameter
\* taking its default
Triple(p) ==
    <<p.city.value, p.category.value,
      IF p.page.given THEN p.page.value ELSE <<"1">>>>

\* C29: a list request is served the cache entry that the request before it
\* stored only when the two requests have the same (city, category, page)
\* triple, also when the values hold `|` or `:`.
C29_CacheKeyInjective ==
    [][ ( /\ ListStep
          /\ listResp'.from_cache
          /\ listResp.status = 200 /\ ~listResp.from_cache
          /\ Cardinality(cache) = 1 )
        => Triple(listResp'.params) = Triple(listResp.params)
      ]_vars

\* C30: when two registrations with the same e-mail address are processed
\* concurrently and both pass the uniqueness check, afterwards at most one
\* User has that e-mail, at most one of the two is answered 201, and every
\* User with that e-mail stems from a request answered 201.
C30_ConcurrentSameEmail ==
    \A w, v \in Workers :
        ( /\ w # v
          /\ pc[w] = "idle" /\ pc[v] = "idle"
          /\ resp[w].op = "register" /\ resp[v].op = "register"
          /\ v \in conc[w] /\ w \in conc[v]
          /\ resp[w].status # 400 /\ resp[v].status # 400
          /\ normalize_email(resp[w].data.email)
                = normalize_email(resp[v].data.email) )
        => /\ Cardinality(UsersWithEmail(resp[w].data.email)) <= 1
           /\ ~(resp[w].status = 201 /\ resp[v].status = 201)
=============================================================================
